---------------------------- MODULE Spec2Model ----------------------------
(***************************************************************************)
(* A state-machine model of pharos_airdrop_bot.py: the interactive run of  *)
(* main() (prompts, connection, key, three loops of actions) against one   *)
(* EVM account.  The chain (transaction count of the account, ERC-20       *)
(* allowances towards the router, mining) is the environment; the bot's    *)
(* position in main() and in the action it is running is the program       *)
(* state.                                                                  *)
(*                                                                         *)
(* Token quantities are counted in whole tokens (units of 10^DEC[symbol]): *)
(* for the integral amounts used here  allowance < amount * 10^DEC  holds  *)
(* exactly when  allowance \div 10^DEC < amount,  so the comparison of     *)
(* approve_if_needed is kept exactly.                                      *)
(***************************************************************************)
EXTENDS Integers, Sequences, FiniteSets, TLC

VARIABLES
    pc,         \* position of the process in main()
    cfg,        \* the answers to the prompts of main(), once parsed
    loop,       \* iterations completed of each of the three for-loops
    cur,        \* the action being run (do_transfer / do_swap / do_add_liquidity)
    chain,      \* the node's view: mined transaction count and allowances
    last,       \* history: the latest transaction the process sent
    stats       \* history: counters of the run

vars == <<pc, cfg, loop, cur, chain, last, stats>>

---------------------------------------------------------------------------
(* Bounds of the model *)

\* The largest answer given to each of the three count prompts.
MaxTx == 1
MaxSwaps == 1
MaxLp == 1
MaxExternal == 1

\* The answers given to the token amount prompt, in whole tokens.
TokenAmts == {1, 2}

\* The account's transaction count when the run starts.
StartNonces == {0, 3}

---------------------------------------------------------------------------
(* Configuration tables, lines 58-74 *)

PHRS == "PHRS"
WPHRS == "WPHRS"
USDC == "USDC"
USDT == "USDT"

TOKENS == {PHRS, WPHRS, USDC, USDT}

NonNative == TOKENS \ {PHRS}

\* 2**256 - 1 of line 173, in whole tokens: larger than every amount of a run.
MAX_UINT256 == 2147483647

\* The allowance of each token towards the router when the run starts.
StartAllowances == {0, 1, MAX_UINT256}

\* checksum() of a router address: the zenithswap entry is the placeholder
\* "0xYourZenithRouterAddressHere", which is no address, so checksum raises.
checksum_ok(router) == router = "faroswap"


---------------------------------------------------------------------------
(* Values *)

Kinds == {"transfer", "approve", "swap", "addLiquidity"}

\* What the node can answer to wait_for_transaction_receipt within the window.
Outcomes == {"success", "reverted", "timeout"}

\* A typed answer to one input() prompt: numeric text, or text int() rejects.
Answers(lo, hi) ==
    {[numeric |-> TRUE, val |-> v] : v \in lo..hi} \cup {[numeric |-> FALSE, val |-> 0]}

\* Candidate private keys: 0x-prefixed or not, by length.
Keys == {k \in [prefixed : BOOLEAN, length : {0, 64, 66}] : k.prefixed => k.length >= 2}

\* No key has been loaded.
NoKey == [prefixed |-> FALSE, length |-> 0]

\* The counters of a run that has not started: the account's count at the
\* start, the calls and transactions made, the receipts by kind, the
\* connectivity checks, the key loaded and the startup step that ended the run.
NoStats(start) ==
    [start |-> start, nonceReads |-> 0, sent |-> 0, rejected |-> 0,
     receipts |-> [k \in Kinds |-> 0], rpc |-> 0, key |-> NoKey, exit |-> "none",
     approved |-> {}]

\* No action is running.  Of an action: its tokens, the guards still to run,
\* and (history) the account's count when it started, the tokens its guards
\* found short, the transactions it has sent to the node and the allowance
\* calls its guards have made.
Idle == [kind |-> "none", tokens |-> <<>>, guards |-> <<>>, n0 |-> 0, short |-> <<>>,
         txs |-> <<>>, reads |-> 0]

NoTx == [kind |-> "none", nonce |-> 0, status |-> "none", token |-> "none", amount |-> 0]

NoCfg == [router |-> "faroswap", n_tx |-> 0, n_swaps |-> 0, n_lp |-> 0, token_amt |-> 0]

---------------------------------------------------------------------------
(* Helpers, lines 125-175 *)

\* A test of line 134 that forgets the length.
load_private_key_prefix_only(key) == key.prefixed

\* load_private_key: the test of line 134.
load_private_key(key) == key.prefixed /\ key.length = 66

\* A nonce read once at startup and never advanced.
get_transaction_count_cached == stats.start

\* Line 153: the nonce is the node's transaction count of the account
\* (block "latest": mined transactions only), read at every build.
get_transaction_count == chain.count

\* The node takes a raw transaction unless its nonce is already used.
NodeAccepts(nonce) == nonce >= chain.count

\* build_tx, lines 151-158: the transaction as signed and sent.
build_tx(kind, token, amount) ==
    [kind |-> kind, nonce |-> get_transaction_count, status |-> "pending",
     token |-> token, amount |-> amount]

\* The counters if only the first build_tx of a run read the node's count.
CountBuildOnce(st, accepted) ==
    [st EXCEPT !.nonceReads = IF @ = 0 THEN 1 ELSE @,
               !.sent = @ + (IF accepted THEN 1 ELSE 0),
               !.rejected = @ + (IF accepted THEN 0 ELSE 1)]

\* The counters after one build_tx: one nonce read, and the node's answer.
CountBuild(st, accepted) ==
    [st EXCEPT !.nonceReads = @ + 1,
               !.sent = @ + (IF accepted THEN 1 ELSE 0),
               !.rejected = @ + (IF accepted THEN 0 ELSE 1)]

\* A wait_receipt that catches the timeout and returns.
wait_receipt_swallow(outcome) == "return"

\* wait_receipt, lines 161-164: wait_for_transaction_receipt raises
\* TimeExhausted at the timeout; any receipt is returned, whatever its status.
wait_receipt(outcome) == IF outcome = "timeout" THEN "raise" ELSE "return"

\* Lines 197, 217-218: the amount of a token, in whole tokens.
amount_of(token) == cfg.token_amt

\* An approve_if_needed that reads the allowance before the test of line 168.
allowance_calls_always(token) == 1

\* Lines 168-171: the allowance calls approve_if_needed makes for a token:
\* none for the native token, for which it returns at once.
allowance_calls(token) == IF token = PHRS THEN 0 ELSE 1

\* The test of line 172 with <= for <.
allowance_short_le(token) == chain.allowance[token] <= amount_of(token)

\* Line 172: the test of approve_if_needed.
allowance_short(token) == chain.allowance[token] < amount_of(token)

\* An approval for the amount of the action only.
approve_amount_exact(token) == amount_of(token)

\* Line 173: the amount an approval asks for.
approve_amount(token) == MAX_UINT256

---------------------------------------------------------------------------
(* The chain: what mining the pending transaction does *)

\* The router can pull `token` from the account.
Covered(token) ==
    IF token = PHRS THEN TRUE ELSE chain.allowance[token] >= amount_of(token)

\* The pending transaction can execute with success status.
ExecOk ==
    CASE last.kind = "swap" -> Covered(cur.tokens[1])
      [] last.kind = "addLiquidity" -> Covered(cur.tokens[1]) /\ Covered(cur.tokens[2])
      [] OTHER -> TRUE

\* The answers the node can give for the pending transaction: it is mined only
\* at the account's next nonce; a plain transfer does not revert.
Possible(outcome) ==
    \/ outcome = "timeout"
    \/ /\ outcome = "success"
       /\ last.nonce = chain.count
       /\ ExecOk
    \/ /\ outcome = "reverted"
       /\ last.nonce = chain.count
       /\ last.kind # "transfer"

\* transferFrom: an unlimited allowance is not decreased.
Spend(allow, token) ==
    IF token = PHRS THEN allow
    ELSE IF allow[token] = MAX_UINT256 THEN allow
    ELSE [allow EXCEPT ![token] = @ - amount_of(token)]

AllowanceAfter ==
    CASE last.kind = "approve" -> [chain.allowance EXCEPT ![last.token] = last.amount]
      [] last.kind = "swap" -> Spend(chain.allowance, cur.tokens[1])
      [] last.kind = "addLiquidity" ->
            Spend(Spend(chain.allowance, cur.tokens[1]), cur.tokens[2])
      [] OTHER -> chain.allowance

\* The chain and the history after the node's answer.
Receipt(outcome) ==
    /\ Possible(outcome)
    /\ chain' = IF outcome = "timeout" THEN chain
                ELSE [count |-> chain.count + 1,
                      allowance |-> IF outcome = "success" THEN AllowanceAfter
                                    ELSE chain.allowance]
    /\ last' = IF outcome = "timeout" THEN last ELSE [last EXCEPT !.status = outcome]
    /\ stats' = IF outcome = "timeout" THEN stats
                ELSE [stats EXCEPT !.receipts[last.kind] = @ + 1]

---------------------------------------------------------------------------
(* main(), lines 241-273 *)

Init ==
    /\ pc = "prompt"
    /\ cfg = NoCfg
    /\ loop = [tx |-> 0, swaps |-> 0, lp |-> 0]
    /\ cur = Idle
    /\ chain \in [count : StartNonces, allowance : [NonNative -> StartAllowances]]
    /\ last = NoTx
    /\ stats = NoStats(chain.count)

\* Lines 245-254: the prompts.  int() and float() raise ValueError on
\* non-numeric text; of the three float() answers the sign is taken positive.
Prompt ==
    /\ pc = "prompt"
    /\ \E dex \in {"1", "2"}, ntx \in Answers(-1, MaxTx), nsw \in Answers(-1, MaxSwaps),
          nlp \in Answers(-1, MaxLp), floats \in BOOLEAN, amt \in TokenAmts :
          IF ntx.numeric /\ nsw.numeric /\ nlp.numeric /\ floats
          THEN /\ cfg' = [router |-> IF dex = "1" THEN "faroswap" ELSE "zenithswap",
                          n_tx |-> ntx.val, n_swaps |-> nsw.val, n_lp |-> nlp.val,
                          token_amt |-> amt]
               /\ pc' = "connect"
               /\ stats' = stats
          ELSE /\ cfg' = cfg
               /\ pc' = "failed"
               /\ stats' = [stats EXCEPT !.exit = "params"]
    /\ UNCHANGED <<loop, cur, chain, last>>

\* Line 256, w3_connect (lines 139-144): sys.exit when the node is unreachable.
Connect ==
    /\ pc = "connect"
    /\ \E connected \in BOOLEAN :
          /\ pc' = IF connected THEN "loadkey" ELSE "failed"
          /\ stats' = [stats EXCEPT !.rpc = @ + 1,
                                    !.exit = IF connected THEN @ ELSE "rpc"]
    /\ UNCHANGED <<cfg, loop, cur, chain, last>>

\* Lines 257-258, load_private_key (lines 125-136): sys.exit on a bad key.
LoadKey ==
    /\ pc = "loadkey"
    /\ \E key \in Keys :
          /\ pc' = IF load_private_key(key) THEN "loop" ELSE "failed"
          /\ stats' = [stats EXCEPT !.key = key,
                                    !.exit = IF load_private_key(key) THEN @ ELSE "key"]
    /\ UNCHANGED <<cfg, loop, cur, chain, last>>

\* The counters with the token of an approval sent to the node.
Approving(st, tx) ==
    IF tx.kind = "approve" THEN [st EXCEPT !.approved = @ \cup {tx.token}] ELSE st

\* A build_tx whose caller goes on when the node refuses the transaction.
SendIgnoringRejection(tx, next, c) ==
    \E accepted \in BOOLEAN :
        /\ accepted => NodeAccepts(tx.nonce)
        /\ last' = IF accepted THEN tx ELSE [tx EXCEPT !.status = "rejected"]
        /\ cur' = [c EXCEPT !.txs = Append(@, last')]
        /\ stats' = Approving(CountBuild(stats, accepted), tx)
        /\ pc' = next

\* build_tx as a step of action `c`: the transaction is sent and the node takes
\* it (then the process goes to `next`) or refuses it (send_raw_transaction
\* raises, and nothing catches it).
Send(tx, next, c) ==
    \E accepted \in BOOLEAN :
        /\ accepted => NodeAccepts(tx.nonce)
        /\ last' = IF accepted THEN tx ELSE [tx EXCEPT !.status = "rejected"]
        /\ cur' = [c EXCEPT !.txs = Append(@, last')]
        /\ stats' = Approving(CountBuild(stats, accepted), tx)
        /\ pc' = IF accepted THEN next ELSE "failed"

\* Two draws from the population with replacement (random.choices).
sample2_with_replacement(S) == S \X S

\* random.sample(population, 2) of lines 194 and 214: the ordered pairs it can
\* return, two distinct members of the population.
sample2(S) == {p \in S \X S : p[1] # p[2]}

\* Lines 261-262 and do_transfer (lines 185-187) up to the wait.
DoTransfer ==
    /\ pc = "loop"
    /\ loop.tx < cfg.n_tx
    /\ Send(build_tx("transfer", PHRS, 0), "wait",
            [Idle EXCEPT !.kind = "transfer", !.n0 = chain.count])
    /\ UNCHANGED <<cfg, loop, chain>>

\* A swap loop that does not wait for the transfer loop to end.
DoSwapAnytime ==
    /\ pc = "loop"
    /\ loop.swaps < cfg.n_swaps
    /\ IF checksum_ok(cfg.router)
       THEN \E pair \in sample2(TOKENS) :
               /\ cur' = [Idle EXCEPT !.kind = "swap", !.tokens = pair,
                                      !.guards = <<pair[1]>>, !.n0 = chain.count]
               /\ pc' = "guard"
       ELSE /\ cur' = cur
            /\ pc' = "failed"
    /\ UNCHANGED <<cfg, loop, chain, last, stats>>

\* Lines 265-266 and do_swap (lines 192-197) up to the call of approve_if_needed.
DoSwap ==
    /\ pc = "loop"
    /\ loop.tx >= cfg.n_tx
    /\ loop.swaps < cfg.n_swaps
    /\ IF checksum_ok(cfg.router)
       THEN \E pair \in sample2(TOKENS) :
               /\ cur' = [Idle EXCEPT !.kind = "swap", !.tokens = pair,
                                      !.guards = <<pair[1]>>, !.n0 = chain.count]
               /\ pc' = "guard"
       ELSE /\ cur' = cur
            /\ pc' = "failed"
    /\ UNCHANGED <<cfg, loop, chain, last, stats>>

\* A liquidity-add that runs the guard of tokenB before the guard of tokenA.
DoAddLiquidityReversed ==
    /\ pc = "loop"
    /\ loop.tx >= cfg.n_tx
    /\ loop.swaps >= cfg.n_swaps
    /\ loop.lp < cfg.n_lp
    /\ IF checksum_ok(cfg.router)
       THEN \E pair \in sample2(TOKENS) :
               /\ cur' = [Idle EXCEPT !.kind = "addLiquidity", !.tokens = pair,
                                      !.guards = <<pair[2], pair[1]>>,
                                      !.n0 = chain.count]
               /\ pc' = "guard"
       ELSE /\ cur' = cur
            /\ pc' = "failed"
    /\ UNCHANGED <<cfg, loop, chain, last, stats>>

\* Lines 269-270 and do_add_liquidity (lines 212-218) up to approve_if_needed.
DoAddLiquidity ==
    /\ pc = "loop"
    /\ loop.tx >= cfg.n_tx
    /\ loop.swaps >= cfg.n_swaps
    /\ loop.lp < cfg.n_lp
    /\ IF checksum_ok(cfg.router)
       THEN \E pair \in sample2(TOKENS) :
               /\ cur' = [Idle EXCEPT !.kind = "addLiquidity", !.tokens = pair,
                                      !.guards = pair, !.n0 = chain.count]
               /\ pc' = "guard"
       ELSE /\ cur' = cur
            /\ pc' = "failed"
    /\ UNCHANGED <<cfg, loop, chain, last, stats>>

\* Where the caller of approve_if_needed goes on once its last guard returned:
\* do_swap and do_add_liquidity build the router call.
AfterGuards(kind) == IF kind = "twice" THEN "done" ELSE "build"

\* approve_if_needed returned to action `c`: the caller's next statement.
Returned(c) ==
    [pc |-> IF Len(c.guards) = 1 THEN AfterGuards(c.kind) ELSE "guard",
     cur |-> [c EXCEPT !.guards = Tail(@)]]

\* Action `c` once its guard has made its allowance calls for `token`.
Read(c, token) == [c EXCEPT !.reads = @ + allowance_calls(token)]

\* approve_if_needed (lines 167-174) up to the wait for the approval's receipt.
Guard ==
    /\ pc = "guard"
    /\ LET token == Head(cur.guards) IN
         IF token = PHRS
         THEN /\ pc' = Returned(cur).pc
              /\ cur' = Returned(Read(cur, token)).cur
              /\ UNCHANGED <<last, stats>>
         ELSE IF ~allowance_short(token)
         THEN /\ pc' = Returned(cur).pc
              /\ cur' = Returned(Read(cur, token)).cur
              /\ UNCHANGED <<last, stats>>
         ELSE Send(build_tx("approve", token, approve_amount(token)), "approve_wait",
                   [Read(cur, token) EXCEPT !.short = Append(@, token)])
    /\ UNCHANGED <<cfg, loop, chain>>

\* The action's latest transaction, with the status of its receipt.
Mark(c, outcome) ==
    IF outcome = "timeout" THEN c ELSE [c EXCEPT !.txs[Len(c.txs)].status = outcome]

\* Line 175: wait_receipt of the approval, then approve_if_needed returns.
ApproveWait ==
    /\ pc = "approve_wait"
    /\ \E outcome \in Outcomes :
          /\ Receipt(outcome)
          /\ IF wait_receipt(outcome) = "raise"
             THEN /\ pc' = "failed"
                  /\ cur' = Mark(cur, outcome)
             ELSE /\ pc' = Returned(cur).pc
                  /\ cur' = Returned(Mark(cur, outcome)).cur
    /\ UNCHANGED <<cfg, loop>>

\* Lines 199-207 and 221-232: the router call is built and sent.
Build ==
    /\ pc = "build"
    /\ Send(build_tx(cur.kind, "none", amount_of(cur.tokens[1])), "wait", cur)
    /\ UNCHANGED <<cfg, loop, chain>>

\* The loop counters once an action returned.
Advance(kind) ==
    CASE kind = "transfer" -> [loop EXCEPT !.tx = @ + 1]
      [] kind = "swap" -> [loop EXCEPT !.swaps = @ + 1]
      [] OTHER -> [loop EXCEPT !.lp = @ + 1]

\* Lines 188, 208, 233: wait_receipt of the action's transaction; then the
\* action prints, returns, main sleeps and goes to the next iteration.
Wait ==
    /\ pc = "wait"
    /\ \E outcome \in Outcomes :
          /\ Receipt(outcome)
          /\ IF wait_receipt(outcome) = "raise"
             THEN /\ pc' = "failed"
                  /\ loop' = loop
                  /\ cur' = Mark(cur, outcome)
             ELSE /\ pc' = "loop"
                  /\ loop' = Advance(cur.kind)
                  /\ cur' = Idle
    /\ UNCHANGED cfg

\* The completion line printed before the liquidity loop.
AllDoneEarly ==
    /\ pc = "loop"
    /\ loop.tx >= cfg.n_tx
    /\ loop.swaps >= cfg.n_swaps
    /\ pc' = "done"
    /\ UNCHANGED <<cfg, loop, cur, chain, last, stats>>

\* Line 273: the three loops are exhausted.
AllDone ==
    /\ pc = "loop"
    /\ loop.tx >= cfg.n_tx
    /\ loop.swaps >= cfg.n_swaps
    /\ loop.lp >= cfg.n_lp
    /\ pc' = "done"
    /\ UNCHANGED <<cfg, loop, cur, chain, last, stats>>

Next ==
    \/ Prompt
    \/ Connect
    \/ LoadKey
    \/ DoTransfer
    \/ DoSwap
    \/ DoAddLiquidity
    \/ Guard
    \/ ApproveWait
    \/ Build
    \/ Wait
    \/ AllDone

\* A run with the account to itself: nobody else sends from it.
Spec == Init /\ [][Next]_vars

\* The same run when every call returns or raises: each RPC call answers and
\* wait_for_transaction_receipt ends with a receipt or at its timeout (line
\* 163), so a step that can be taken is taken.
SpecFair == Init /\ [][Next]_vars /\ WF_vars(Next)

---------------------------------------------------------------------------
(* The account shared with another sender *)

\* The transactions of the account mined so far that this run did not send.
External == chain.count - stats.start - (stats.receipts["transfer"]
               + stats.receipts["approve"] + stats.receipts["swap"]
               + stats.receipts["addLiquidity"])

\* Another holder of the key has a transaction of the account mined: the count
\* that get_transaction_count (line 153) returns grows by one.
ExternalSend ==
    /\ pc \in {"loop", "guard", "approve_wait", "build", "wait"}
    /\ External < MaxExternal
    /\ chain' = [chain EXCEPT !.count = @ + 1]
    /\ UNCHANGED <<pc, cfg, loop, cur, last, stats>>

\* The start of main() on an account whose tokens the router is allowed all
\* alike: nothing of any, or one unlimited approval of each.
SharedInit ==
    /\ Init
    /\ \E a \in {0, MAX_UINT256} : chain.allowance = [t \in NonNative |-> a]

SharedNext ==
    \/ Next
    \/ ExternalSend

SpecShared == SharedInit /\ [][SharedNext]_vars

---------------------------------------------------------------------------
(* approve_if_needed called twice in a row with the same arguments *)

TwiceInit ==
    /\ pc = "guard"
    /\ \E amt \in TokenAmts : cfg = [NoCfg EXCEPT !.token_amt = amt]
    /\ loop = [tx |-> 0, swaps |-> 0, lp |-> 0]
    /\ chain \in [count : StartNonces, allowance : [NonNative -> StartAllowances]]
    /\ \E token \in TOKENS :
          cur = [Idle EXCEPT !.kind = "twice", !.guards = <<token, token>>,
                             !.n0 = chain.count]
    /\ last = NoTx
    /\ stats = NoStats(chain.count)

TwiceNext ==
    \/ Guard
    \/ ApproveWait

SpecTwice == TwiceInit /\ [][TwiceNext]_vars

---------------------------------------------------------------------------
(* Properties *)

\* The number of transactions the process has sent to the node.
Submitted == stats.sent + stats.rejected

\* len(range(n)): the iterations of a for-loop over range(n).
RangeLen(n) == IF n > 0 THEN n ELSE 0

\* C1: with the account to itself, the k-th transaction the process submits
\* (approval or action, whatever the node answers) carries the nonce
\* start + k - 1: checked at every state for the latest one, and for the
\* transactions of the running action, which are consecutive.
C1_NonceSequence ==
    /\ Submitted >= 1 => last.nonce = stats.start + Submitted - 1
    /\ \A i \in 1..Len(cur.txs) : cur.txs[i].nonce = cur.n0 + i - 1

C1_Witness ==
    /\ stats.start = 3
    /\ Submitted = 3
    /\ last.kind = "swap"
    /\ last.nonce = 5
    /\ Len(cur.txs) = 2
    /\ cur.txs[1].kind = "approve"

C3_RevertIsFatal == last.status = "reverted" => pc = "failed"

\* The router call in flight pulls every token it spends from an allowance
\* that covers it.
SpendCovered ==
    /\ Covered(cur.tokens[1])
    /\ cur.kind = "addLiquidity" => Covered(cur.tokens[2])

\* C4: when a swap or add-liquidity transaction is submitted, the allowance of
\* every non-native token it spends covers the amount.
C4_ApprovalBeforeSpend ==
    (pc = "wait" /\ last.kind \in {"swap", "addLiquidity"}) => SpendCovered

\* C5: a transaction the node refuses ends the run in Failed at once: it is the
\* last one submitted, it has no receipt, it is the only refusal of the run,
\* and every transaction before it was confirmed.
C5_RejectionIsFatal ==
    stats.rejected > 0 =>
        /\ pc = "failed"
        /\ stats.rejected = 1
        /\ last.status = "rejected"
        /\ stats.receipts["transfer"] + stats.receipts["approve"]
             + stats.receipts["swap"] + stats.receipts["addLiquidity"] = stats.sent

C5_Witness ==
    /\ stats.rejected = 1
    /\ last.kind = "transfer"
    /\ stats.sent = 0
    /\ stats.receipts["transfer"] = 0
    /\ cfg.n_swaps = 1
    /\ pc = "failed"

\* C6: a transaction not mined within the wait window ends the run in Failed;
\* it stays the last one submitted, and the nonce the process would use next
\* is still the pending transaction's.
C6_TimeoutIsFatal ==
    (last.status = "pending" /\ pc \notin {"wait", "approve_wait"}) =>
        /\ pc = "failed"
        /\ get_transaction_count = last.nonce
        /\ Submitted = stats.sent
        /\ last.nonce = stats.start + stats.sent - 1

C6_Witness ==
    /\ pc = "failed"
    /\ last.status = "pending"
    /\ last.kind = "approve"
    /\ stats.sent = 2

\* C7: the run is Completed only when every iteration of the three loops has
\* had its transaction sent and its receipt obtained.
C7_CompletedAfterAll ==
    pc = "done" =>
        /\ stats.receipts["transfer"] = RangeLen(cfg.n_tx)
        /\ stats.receipts["swap"] = RangeLen(cfg.n_swaps)
        /\ stats.receipts["addLiquidity"] = RangeLen(cfg.n_lp)
        /\ last.status \notin {"pending", "rejected"}
        /\ stats.rejected = 0

C7_Witness ==
    /\ pc = "done"
    /\ stats.receipts["transfer"] = 1
    /\ stats.receipts["swap"] = 1
    /\ stats.receipts["addLiquidity"] = 1
    /\ stats.receipts["approve"] = 3

\* C8: once the first of two calls of approve_if_needed with the same
\* arguments has returned, having sent an approval, that approval is the only
\* transaction of the two calls.
C8_SecondCallSendsNothing ==
    (cur.kind = "twice" /\ Len(cur.guards) <= 1 /\ cur.short # <<>>) => Submitted = 1

\* C9: a guard that finds the allowance sufficient changes nothing (no
\* transaction, same chain state), and a swap whose guard found it sufficient
\* has sent one transaction, the swap.
C9_GuardStep ==
    (/\ pc = "guard"
     /\ Head(cur.guards) # PHRS
     /\ chain.allowance[Head(cur.guards)] >= amount_of(Head(cur.guards)))
    => (/\ last' = last
        /\ stats' = stats
        /\ chain' = chain
        /\ cur'.txs = cur.txs
        /\ cur'.short = cur.short)

C9_SwapAlone ==
    (pc = "wait" /\ cur.kind = "swap" /\ cur.short = <<>>) =>
        /\ Len(cur.txs) = 1
        /\ cur.txs[1].kind = "swap"
        /\ Submitted = stats.receipts["transfer"] + stats.receipts["approve"]
                         + stats.receipts["swap"] + stats.receipts["addLiquidity"] + 1

C9_SufficientAllowance == [][C9_GuardStep]_vars /\ []C9_SwapAlone

C9_Witness ==
    /\ pc = "wait"
    /\ cur.kind = "swap"
    /\ cur.tokens[1] = USDC
    /\ chain.allowance[USDC] = 1
    /\ cfg.token_amt = 1
    /\ cur.txs = <<last>>

\* C10: a swap whose guard found the allowance short has sent, when the swap
\* is submitted, two transactions: the approval of 2^256-1 for the input
\* token, with nonce n and its receipt obtained, then the swap with nonce
\* n + 1; when the action returns the account's next nonce is n + 2.
C10_SwapSent ==
    (pc = "wait" /\ cur.kind = "swap" /\ cur.short # <<>>) =>
        /\ Len(cur.txs) = 2
        /\ cur.txs[1].kind = "approve"
        /\ cur.txs[1].token = cur.tokens[1]
        /\ cur.txs[1].amount = MAX_UINT256
        /\ cur.txs[1].status \in {"success", "reverted"}
        /\ cur.txs[1].nonce = cur.n0
        /\ cur.txs[2].kind = "swap"
        /\ cur.txs[2].nonce = cur.n0 + 1

C10_SwapReturns ==
    (pc = "wait" /\ pc' = "loop" /\ cur.kind = "swap" /\ cur.short # <<>>)
    => get_transaction_count' = cur.n0 + 2

C10_ApproveThenSwap == []C10_SwapSent /\ [][C10_SwapReturns]_vars

C10_Witness ==
    /\ pc = "loop"
    /\ loop.swaps = 1
    /\ last.kind = "swap"
    /\ last.status = "success"
    /\ last.nonce = stats.start + 1
    /\ stats.receipts["approve"] = 1
    /\ chain.count = stats.start + 2

\* C11: the native token is never approved.  A guard step for the native
\* token makes no allowance call and sends nothing; a transfer never runs the
\* guard, and has sent one transaction, the transfer; no approval names the
\* native token.
C11_NativeGuardStep ==
    (pc = "guard" /\ Head(cur.guards) = PHRS)
    => (/\ cur'.reads = cur.reads
        /\ cur'.txs = cur.txs
        /\ cur'.short = cur.short
        /\ last' = last
        /\ stats' = stats
        /\ chain' = chain)

C11_TransferAlone ==
    /\ cur.kind = "transfer" =>
          /\ pc \in {"wait", "failed"}
          /\ cur.reads = 0
          /\ cur.guards = <<>>
          /\ Len(cur.txs) = 1
          /\ cur.txs[1].kind = "transfer"
    /\ last.kind = "approve" => last.token # PHRS
    /\ \A i \in 1..Len(cur.short) : cur.short[i] # PHRS

C11_NoNativeApproval == [][C11_NativeGuardStep]_vars /\ []C11_TransferAlone

C11_Witness ==
    /\ pc = "wait"
    /\ cur.kind = "addLiquidity"
    /\ cur.tokens = <<PHRS, USDC>>
    /\ cur.short = <<USDC>>
    /\ cur.reads = 1
    /\ Len(cur.txs) = 2
    /\ stats.receipts["transfer"] = 1

\* C12: the three phases run in order.  While a swap runs every configured
\* transfer has its receipt; while a liquidity-add runs every configured
\* transfer and swap has; no loop runs more iterations than configured (the
\* iterations of range(n): n of them, none for n <= 0), and a completed run
\* has run exactly that many of each.
C12_PhasesInOrder ==
    /\ (cur.kind = "swap" \/ stats.receipts["swap"] > 0) =>
          stats.receipts["transfer"] = RangeLen(cfg.n_tx)
    /\ (cur.kind = "addLiquidity" \/ stats.receipts["addLiquidity"] > 0) =>
          /\ stats.receipts["transfer"] = RangeLen(cfg.n_tx)
          /\ stats.receipts["swap"] = RangeLen(cfg.n_swaps)
    /\ loop.tx <= RangeLen(cfg.n_tx)
    /\ loop.swaps <= RangeLen(cfg.n_swaps)
    /\ loop.lp <= RangeLen(cfg.n_lp)
    /\ loop.tx = stats.receipts["transfer"]
    /\ loop.swaps = stats.receipts["swap"]
    /\ loop.lp = stats.receipts["addLiquidity"]
    /\ pc = "done" =>
          /\ loop.tx = RangeLen(cfg.n_tx)
          /\ loop.swaps = RangeLen(cfg.n_swaps)
          /\ loop.lp = RangeLen(cfg.n_lp)

C12_Witness ==
    /\ pc = "approve_wait"
    /\ cur.kind = "addLiquidity"
    /\ cfg.n_tx = 1
    /\ cfg.n_swaps = 1
    /\ stats.receipts["transfer"] = 1
    /\ stats.receipts["swap"] = 1
    /\ last.status = "pending"

\* The receipts the process has obtained.
Confirmed ==
    stats.receipts["transfer"] + stats.receipts["approve"] + stats.receipts["swap"]
      + stats.receipts["addLiquidity"]

\* C13: at most one transaction of the process is unconfirmed, the latest one
\* while it is pending; and a transaction is submitted only when every
\* transaction the node accepted before has its receipt.
C13_Unconfirmed ==
    stats.sent - Confirmed = IF last.status = "pending" THEN 1 ELSE 0

C13_SubmitStep == Submitted' = Submitted + 1 => Confirmed = stats.sent

C13_OneAtATime == []C13_Unconfirmed /\ [][C13_SubmitStep]_vars

C13_Witness ==
    /\ pc = "wait"
    /\ cur.kind = "addLiquidity"
    /\ Len(cur.txs) = 3
    /\ stats.sent = 6
    /\ Confirmed = 5

\* C14 as stated: a run ended by a bad key or a bad run parameter has made no
\* call to the node, the connectivity check included.
C14_NoChainOnBadConfig == stats.exit \in {"params", "key"} => stats.rpc = 0

\* C14 as amended: a non-numeric run parameter ends the run before any call
\* to the node; a missing or malformed key ends it after the connectivity
\* check of w3_connect, the only call made, and before any transaction is
\* built; a run that goes on holds a 0x-prefixed key of 66 characters.
C14_BadConfigIsFatal ==
    /\ stats.exit = "params" => (pc = "failed" /\ stats.rpc = 0)
    /\ stats.exit = "key" =>
          /\ pc = "failed"
          /\ stats.rpc = 1
          /\ ~(stats.key.prefixed /\ stats.key.length = 66)
    /\ stats.exit # "none" =>
          /\ Submitted = 0
          /\ stats.nonceReads = 0
          /\ cur = Idle
          /\ chain.count = stats.start
    /\ pc \in {"loop", "guard", "approve_wait", "build", "wait", "done"} =>
          /\ stats.exit = "none"
          /\ stats.rpc = 1
          /\ stats.key.prefixed
          /\ stats.key.length = 66

C14_Witness ==
    /\ pc = "failed"
    /\ stats.exit = "key"
    /\ stats.key.prefixed
    /\ stats.key.length = 64
    /\ stats.rpc = 1
    /\ cfg.n_tx = 1

\* C15: a negative answer to a count prompt ends the run at startup: no
\* transaction is submitted and the run is never Completed.
C15_NegativeIsFatal ==
    (cfg.n_tx < 0 \/ cfg.n_swaps < 0 \/ cfg.n_lp < 0) => (pc # "done" /\ Submitted = 0)

\* C16: the two tokens of a swap or of a liquidity-add are two distinct
\* configured tokens, and whenever the next swap or liquidity-add is about to
\* draw them, every ordered pair of distinct configured tokens can be drawn.
C16_Distinct ==
    cur.kind \in {"swap", "addLiquidity"} =>
        /\ Len(cur.tokens) = 2
        /\ cur.tokens[1] \in TOKENS
        /\ cur.tokens[2] \in TOKENS
        /\ cur.tokens[1] # cur.tokens[2]

C16_AnyPair ==
    (pc = "loop" /\ loop.tx >= cfg.n_tx /\ checksum_ok(cfg.router)) =>
        \A a \in TOKENS, b \in TOKENS :
            a # b =>
               /\ loop.swaps < cfg.n_swaps => ENABLED (DoSwap /\ cur'.tokens = <<a, b>>)
               /\ (loop.swaps >= cfg.n_swaps /\ loop.lp < cfg.n_lp) =>
                     ENABLED (DoAddLiquidity /\ cur'.tokens = <<a, b>>)

C16_TokenChoice == C16_Distinct /\ C16_AnyPair

C16_Witness ==
    /\ pc = "wait"
    /\ cur.kind = "addLiquidity"
    /\ cur.tokens = <<USDT, PHRS>>
    /\ loop.swaps = 1

\* C17: within one run at most one approval is submitted per token (the run
\* has one router): an approval submitted by a step is never for a token the
\* run has already submitted an approval for.
C17_ApprovalStep ==
    (Submitted' = Submitted + 1 /\ last'.kind = "approve") =>
        last'.token \notin stats.approved

C17_OneApprovalPerToken == [][C17_ApprovalStep]_vars

\* C18: a liquidity-add runs the guard of tokenA to the receipt of its
\* approval, then the guard of tokenB likewise, and only then sends the
\* addLiquidity call: 1 to 3 transactions with consecutive nonces, the
\* addLiquidity call last.
C18_GuardsInOrder ==
    /\ cur.guards \in {cur.tokens, Tail(cur.tokens), <<>>}
    /\ cur.short \in {<<>>, <<cur.tokens[1]>>, <<cur.tokens[2]>>, cur.tokens}
    /\ (cur.guards = cur.tokens /\ pc = "guard") => cur.txs = <<>>
    /\ (cur.short # <<>> /\ cur.short[Len(cur.short)] = cur.tokens[1]
            /\ pc = "approve_wait") => cur.guards = cur.tokens
    /\ pc = "approve_wait" =>
          /\ cur.guards # <<>>
          /\ last.kind = "approve"
          /\ last.token = Head(cur.guards)
    /\ pc \in {"build", "wait"} => cur.guards = <<>>

C18_Transactions ==
    /\ Len(cur.txs) <= 3
    /\ \A i \in 1..Len(cur.txs) :
          /\ cur.txs[i].nonce = cur.n0 + i - 1
          /\ cur.txs[i].kind = "addLiquidity" => (i = Len(cur.txs) /\ cur.guards = <<>>)
          /\ i < Len(cur.txs) =>
                /\ cur.txs[i].kind = "approve"
                /\ cur.txs[i].status \in {"success", "reverted"}
          /\ cur.txs[i].kind = "approve" =>
                (i <= Len(cur.short) /\ cur.txs[i].token = cur.short[i])
    /\ pc = "wait" =>
          /\ Len(cur.txs) \in 1..3
          /\ cur.txs[Len(cur.txs)].kind = "addLiquidity"
          /\ Len(cur.txs) = Len(cur.short) + 1

C18_AddLiquiditySteps ==
    cur.kind = "addLiquidity" => (C18_GuardsInOrder /\ C18_Transactions)

C18_Witness ==
    /\ pc = "wait"
    /\ cur.kind = "addLiquidity"
    /\ cur.tokens = <<USDC, WPHRS>>
    /\ cur.short = <<USDC, WPHRS>>
    /\ Len(cur.txs) = 3
    /\ cur.txs[3].nonce = cur.n0 + 2
    /\ cur.txs[1].status = "reverted"

\* C19: every run ends in Completed or Failed, and it submits at most
\* n_tx + 2*n_swaps + 3*n_lp transactions.
C19_WithinBudget == Submitted <= cfg.n_tx + 2 * cfg.n_swaps + 3 * cfg.n_lp

C19_Terminates == []C19_WithinBudget /\ <>(pc \in {"done", "failed"})

\* C20: every transaction the process submits carries the account's mined
\* transaction count of the moment it is built, also when another sender
\* uses the account: its nonce is never one already used on chain.
C20_BuildStep ==
    Submitted' = Submitted + 1 =>
        /\ last'.nonce = chain.count
        /\ chain' = chain

C20_NonceIsMinedCount == [][C20_BuildStep]_vars

C20_Witness ==
    /\ pc = "wait"
    /\ cur.kind = "swap"
    /\ stats.receipts["transfer"] = 1
    /\ External = 1
    /\ last.kind = "swap"
    /\ last.status = "pending"
    /\ last.nonce = stats.start + 1 + Len(cur.short) + 1
    /\ last.nonce = chain.count

============================================================================
